---- MODULE Spec2Model ----
(***************************************************************************)
(* Marginal message passing, run_mmp_v2 (src/pymdp/core/algos/mmp_v2.py).  *)
(*                                                                         *)
(* Numbers.  The code works on float64 vectors.  A non-negative quantity   *)
(* is modelled by its leading term (n/d) * eps^k, where eps stands for the *)
(* floor 1e-16 that the code adds before every logarithm and n/d is an     *)
(* exact rational in lowest terms.  A sum keeps the terms of lowest order  *)
(* in eps, as float64 absorbs 1e-16 next to 1.  A division by zero gives   *)
(* NaN, as numpy does.                                                     *)
(*                                                                         *)
(* Log domain.  A log-domain vector of the code (lnA, lnB_past, ...) is    *)
(* represented by the vector of its antilogs: adding two logs is a         *)
(* product, scaling a log by an integer is a power, the zero vector is the *)
(* vector of ones, and softmax is normalisation by the sum.                *)
(***************************************************************************)
EXTENDS Integers, Sequences, FiniteSets, TLC

\* ------------------------------------------------------------- bounds
MaxPast == 2
MaxFuture == 2
MaxIter == 2
MaxFactors == 2
NumStates == 2

\* ------------------------------------------------------------ numbers
RECURSIVE GCD(_, _)
GCD(a, b) == IF b = 0 THEN a ELSE GCD(b, a % b)

NaN == [n |-> 0, d |-> 0, k |-> 0]
Zero == [n |-> 0, d |-> 1, k |-> 0]
One == [n |-> 1, d |-> 1, k |-> 0]
EPS == [n |-> 1, d |-> 1, k |-> 1]

IsNaN(v) == v.d = 0
IsZero(v) == v.d # 0 /\ v.n = 0

Norm(n, d, k) ==
    IF n = 0 THEN Zero
    ELSE LET g == GCD(n, d) IN [n |-> n \div g, d |-> d \div g, k |-> k]

VAdd(a, b) ==
    IF IsNaN(a) \/ IsNaN(b) THEN NaN
    ELSE IF IsZero(a) THEN b
    ELSE IF IsZero(b) THEN a
    ELSE IF a.k < b.k THEN a
    ELSE IF b.k < a.k THEN b
    ELSE LET g == GCD(a.d, b.d)
         IN Norm(a.n * (b.d \div g) + b.n * (a.d \div g), (a.d \div g) * b.d, a.k)

\* the product, cancelling across the factors before multiplying
VMul(a, b) ==
    IF IsNaN(a) \/ IsNaN(b) THEN NaN
    ELSE IF IsZero(a) \/ IsZero(b) THEN Zero
    ELSE LET g1 == GCD(a.n, b.d)
             g2 == GCD(b.n, a.d)
         IN [n |-> (a.n \div g1) * (b.n \div g2),
             d |-> (a.d \div g2) * (b.d \div g1),
             k |-> a.k + b.k]

VDiv(a, b) ==
    IF IsNaN(a) \/ IsNaN(b) \/ IsZero(b) THEN NaN
    ELSE VMul(a, [n |-> b.d, d |-> b.n, k |-> -b.k])

\* a ^ c for an integer c in -1 .. 2
VPow(a, c) ==
    CASE c = 0 -> IF IsNaN(a) THEN NaN ELSE One
      [] c = 1 -> a
      [] c = 2 -> VMul(a, a)
      [] c = -1 -> VDiv(One, a)

States == 0 .. (NumStates - 1)

RECURSIVE SumUpTo(_, _)
SumUpTo(v, i) == IF i < 0 THEN Zero ELSE VAdd(SumUpTo(v, i - 1), v[i])

\* the sum of the entries of a vector indexed by 0 .. n-1
VSum(v) == SumUpTo(v, Cardinality(DOMAIN v) - 1)

RECURSIVE SumOver(_, _)
SumOver(S, term) ==
    IF S = {} THEN Zero
    ELSE LET x == CHOOSE y \in S : TRUE
         IN VAdd(term[x], SumOver(S \ {x}, term))

Range0(n) == 0 .. (n - 1)

\* ------------------------------------------------------------- state
VARIABLES
    B,              \* B[f][u][i][j]: factor f, action u, next state i, state j
    ll_seq,         \* ll_seq[t][x]: likelihood of the joint hidden state x at t
    policy,         \* the full action trajectory (prev_actions on policy)
    prior,          \* prior[f][s]
    num_iter,
    grad_descent,
    tau,
    last_timestep,
    qs_seq,         \* qs_seq[t][f][s]
    F,              \* the free energy: the formal sum of its contributions
    itr, t, f,      \* the position in the loop nest
    pc,             \* "update" | "accum" | "return" | "done" | "error"
    written,        \* written[t][f]: the iteration that last wrote qs_seq[t][f]
    reads,          \* what the last update read, with the version read
    last            \* the (itr, t, f) of the last update

vars == <<B, ll_seq, policy, prior, num_iter, grad_descent, tau, last_timestep,
          qs_seq, F, itr, t, f, pc, written, reads, last>>

inputs == <<B, ll_seq, policy, prior, num_iter, grad_descent, tau, last_timestep>>

\* ------------------------------------------------- window, dimensions
past_len == Cardinality(DOMAIN ll_seq)

future_len == Cardinality(DOMAIN policy) - past_len

\* mutant: the window one timestep short when last_timestep is set
infer_len_Short ==
    IF last_timestep THEN past_len + future_len - 2 ELSE past_len + future_len

infer_len ==
    IF last_timestep THEN past_len + future_len - 1 ELSE past_len + future_len

\* mutant: the cutoff one step late
future_cutoff_OffByOne == past_len + future_len - 1

future_cutoff == past_len + future_len - 2

num_factors == Cardinality(DOMAIN B)

num_states(ff) == Cardinality(DOMAIN B[ff][0])

num_actions(ff) == Cardinality(DOMAIN B[ff])

Factors == Range0(num_factors)

\* ------------------------------------------------ primitives (maths)
RECURSIVE ProdOver(_, _)
ProdOver(S, term) ==
    IF S = {} THEN One
    ELSE LET x == CHOOSE y \in S : TRUE
         IN VMul(term[x], ProdOver(S \ {x}, term))

\* spm_dot(X, x, [ff]): the tensor X contracted with the beliefs x[g] of every
\* factor g but ff, leaving a vector over the states of ff
spm_dot(X, x, ff) ==
    [s \in Range0(num_states(ff)) |->
        LET xs == {y \in DOMAIN X : y[ff] = s}
            rest == Factors \ {ff}
        IN SumOver(xs, [y \in xs |->
               VMul(X[y], ProdOver(rest, [g \in rest |-> x[g][y[g]]]))])]

\* the matrix-vector product M.dot(v)
Dot(M, v) ==
    [i \in DOMAIN M |-> SumOver(DOMAIN v, [j \in DOMAIN v |-> VMul(M[i][j], v[j])])]

Transpose(M) == [i \in DOMAIN M |-> [j \in DOMAIN M |-> M[j][i]]]

\* spm_norm: every row divided by its sum
spm_norm(M) ==
    [i \in DOMAIN M |-> [j \in DOMAIN M |-> VDiv(M[i][j], VSum(M[i]))]]

\* softmax of a log-domain vector: its antilogs divided by their sum
softmax(lnx) == [s \in DOMAIN lnx |-> VDiv(lnx[s], VSum(lnx))]

\* mutant: the logarithm without its floor
LnFloor_NoFloor(x) == x

\* np.log(x + 1e-16), as an antilog
LnFloor(x) == VAdd(x, EPS)

\* the sum of three log-domain vectors
LogSum3(a, b, c) == [s \in DOMAIN a |-> VMul(a[s], VMul(b[s], c[s]))]

\* ------------------------------------------------------ preprocessing
\* np.ones(num_states[f]) / num_states[f]
InitBelief(ff) == [s \in Range0(num_states(ff)) |-> Norm(1, num_states(ff), 0)]

\* mutant: the terminal message left as allocated, not zeroed
qs_T_Uninit(ff) == [s \in Range0(num_states(ff)) |-> Norm(s + 1, 1, 0)]

\* qs_T[f] = np.zeros(num_states[f]), a log-domain message
qs_T(ff) == [s \in Range0(num_states(ff)) |-> One]

trans_B(ff, u) == spm_norm(Transpose(B[ff][u]))

\* mutant: an index check that lets everything through
ValidIndex_Any(a, n) == TRUE

\* numpy's index check on an axis of length n: -n .. n-1, the negative ones
\* counted from the end
ValidIndex(a, n) == a \in (-n) .. (n - 1)

\* the position a valid index a names: a itself, or a + n when a is negative
WrapIndex(a, n) == a % n

\* ----------------------------------------------------- message engine
HasEvidence(tt) == tt < past_len

\* mutant: the terminal message one timestep late
UsesTerminal_Late(tt) == tt > future_cutoff

UsesTerminal(tt) == tt >= future_cutoff

\* mutant: the past message from the belief of the timestep itself
PrevIndex_Same(tt) == tt

PrevIndex(tt) == tt - 1

NextIndex(tt) == tt + 1

\* lines 76-79
Likelihood(qs, tt, ff) ==
    IF HasEvidence(tt)
    THEN LET m == spm_dot(ll_seq[tt], qs[tt], ff)
         IN [s \in DOMAIN m |-> LnFloor(m[s])]
    ELSE [s \in Range0(num_states(ff)) |-> One]

\* mutant: the default prior in place of the one supplied
PastMessage_DefaultPrior(qs, tt, ff) ==
    IF tt = 0
    THEN [s \in DOMAIN prior[ff] |-> LnFloor(Norm(1, num_states(ff), 0))]
    ELSE LET u == WrapIndex(policy[tt - 1][ff], num_actions(ff))
             past_msg == Dot(B[ff][u], qs[tt - 1][ff])
         IN [s \in DOMAIN past_msg |-> LnFloor(past_msg[s])]

\* lines 82-86
PastMessage(qs, tt, ff) ==
    IF tt = 0
    THEN [s \in DOMAIN prior[ff] |-> LnFloor(prior[ff][s])]
    ELSE LET u == WrapIndex(policy[tt - 1][ff], num_actions(ff))
             past_msg == Dot(B[ff][u], qs[PrevIndex(tt)][ff])
         IN [s \in DOMAIN past_msg |-> LnFloor(past_msg[s])]

\* lines 89-93
FutureMessage(qs, tt, ff) ==
    IF UsesTerminal(tt)
    THEN qs_T(ff)
    ELSE LET u == WrapIndex(policy[tt][ff], num_actions(ff))
             future_msg == Dot(trans_B(ff, u), qs[NextIndex(tt)][ff])
         IN [s \in DOMAIN future_msg |-> LnFloor(future_msg[s])]

\* lines 97-102.  err is recentred by its mean in the code: a shift of every
\* entry by the same amount, which softmax does not see.
GradStep(qs, tt, ff, lnA, lnB_past, lnB_future) ==
    LET lnqs == [s \in DOMAIN qs[tt][ff] |-> LnFloor(qs[tt][ff][s])]
        coeff == IF UsesTerminal(tt) THEN 1 ELSE 2
        err == [s \in DOMAIN lnqs |->
                   VDiv(VMul(VPow(lnA[s], coeff), VMul(lnB_past[s], lnB_future[s])),
                        VPow(lnqs[s], coeff))]
    IN softmax([s \in DOMAIN lnqs |-> VMul(lnqs[s], VPow(err[s], tau))])

\* the value lines 96-109 write to qs_seq[tt][ff]
NewBelief(qs, tt, ff) ==
    LET lnA == Likelihood(qs, tt, ff)
        lnB_past == PastMessage(qs, tt, ff)
        lnB_future == FutureMessage(qs, tt, ff)
    IN IF grad_descent
       THEN GradStep(qs, tt, ff, lnA, lnB_past, lnB_future)
       ELSE softmax(LogSum3(lnA, lnB_past, lnB_future))

\* the indexing of lines 85 and 92 succeeds
PastIndexOK(tt, ff) ==
    IF tt = 0 THEN TRUE
    ELSE /\ ValidIndex(policy[tt - 1][ff], num_actions(ff))
         /\ PrevIndex(tt) \in DOMAIN qs_seq

FutureIndexOK(tt, ff) ==
    IF UsesTerminal(tt) THEN TRUE
    ELSE /\ ValidIndex(policy[tt][ff], num_actions(ff))
         /\ NextIndex(tt) \in DOMAIN qs_seq

Version(tt, ff) == IF tt \in DOMAIN written THEN written[tt][ff] ELSE -2

Rd(kind, tt, ff) ==
    [kind |-> kind, t |-> tt, f |-> ff,
     ver |-> IF kind \in {"qs_same", "qs_prev", "qs_next", "qs_self"}
             THEN Version(tt, ff) ELSE 0]

\* what the update of (tt, ff) reads, in the order of the code, up to the
\* read that fails
ReadsOf(tt, ff) ==
    LET like == IF HasEvidence(tt)
                THEN {Rd("ll_seq", tt, ff)}
                     \cup {Rd("qs_same", tt, g) : g \in Factors \ {ff}}
                ELSE {}
        past == IF tt = 0 THEN {Rd("prior", tt, ff)}
                ELSE {Rd("policy", tt - 1, ff)}
                     \cup (IF ValidIndex(policy[tt - 1][ff], num_actions(ff))
                           THEN {Rd("qs_prev", PrevIndex(tt), ff)} ELSE {})
        future == IF UsesTerminal(tt) THEN {Rd("qs_T", tt, ff)}
                  ELSE {Rd("policy", tt, ff)}
                       \cup (IF ValidIndex(policy[tt][ff], num_actions(ff))
                             THEN {Rd("qs_next", NextIndex(tt), ff)} ELSE {})
        self == IF grad_descent THEN {Rd("qs_self", tt, ff)} ELSE {}
    IN IF ~PastIndexOK(tt, ff) THEN like \cup past
       ELSE IF ~FutureIndexOK(tt, ff) THEN like \cup past \cup future
       ELSE like \cup past \cup future \cup self

\* ---------------------------------------------------------- loop nest
Pos(p, i, tt, ff) == [pc |-> p, itr |-> i, t |-> tt, f |-> ff]

\* mutant: one sweep too many
LoopContinues_Inclusive(i) == i <= num_iter

LoopContinues(i) == i < num_iter

\* for itr in range(num_iter): for t in range(infer_len): ...
AfterTimestep(i, tt) ==
    IF tt + 1 < infer_len THEN Pos("update", i, tt + 1, 0)
    ELSE IF LoopContinues(i + 1) THEN Pos("update", i + 1, 0, 0)
    ELSE Pos("return", i + 1, 0, 0)

\* ... for f in range(num_factors): ...; if not grad_descent: F += ...
AfterUpdate(i, tt, ff) ==
    IF ff + 1 < num_factors THEN Pos("update", i, tt, ff + 1)
    ELSE IF ~grad_descent THEN Pos("accum", i, tt, ff)
    ELSE AfterTimestep(i, tt)

Entry ==
    IF LoopContinues(0) /\ infer_len > 0 /\ num_factors > 0
    THEN Pos("update", 0, 0, 0)
    ELSE Pos("return", IF LoopContinues(0) THEN num_iter ELSE 0, 0, 0)

\* mutant: F = term
Accumulate_Assign(Fv, term) == <<term>>

\* F += term
Accumulate(Fv, term) == Append(Fv, term)

\* lines 103-106: the term the gradient rule adds to F
GradTerm(i, tt, ff) ==
    [kind |-> IF tt = 0 \/ tt = infer_len - 1 THEN "grad_boundary" ELSE "grad_interior",
     itr |-> i, t |-> tt, f |-> ff, accuracy |-> FALSE]

\* lines 112-115: calc_free_energy, with the likelihood term at past timesteps
VfeTerm(i, tt) ==
    [kind |-> "vfe", itr |-> i, t |-> tt, f |-> -1, accuracy |-> HasEvidence(tt)]

\* ------------------------------------------------------------- inputs
Half == Norm(1, 2, 0)

Ind(b) == IF b THEN One ELSE Zero

\* column-stochastic transition slices over States
Ident == [i \in States |-> [j \in States |-> Ind(i = j)]]

Shift == [i \in States |-> [j \in States |-> Ind(i = (j + 1) % NumStates)]]

\* every state leads to state 0: column-stochastic, not doubly stochastic
Collapse == [i \in States |-> [j \in States |-> Ind(i = 0)]]

BTensors == { [u \in {0} |-> Shift], [u \in {0, 1} |-> IF u = 0 THEN Ident ELSE Collapse] }

Uniform == [s \in States |-> Norm(1, NumStates, 0)]

OneHotLast == [s \in States |-> Ind(s = NumStates - 1)]

\* twice the weight on state 0
Skewed == [s \in States |-> Norm(IF s = 0 THEN 2 ELSE 1, NumStates + 1, 0)]

Priors == {Uniform, OneHotLast}

JointStates(nf) == [Range0(nf) -> States]

RECURSIVE SumInts(_, _)
SumInts(x, i) == IF i < 0 THEN 0 ELSE x[i] + SumInts(x, i - 1)

LLUniform(nf) == [x \in JointStates(nf) |-> Half]

LLParity(nf) == [x \in JointStates(nf) |-> Ind(SumInts(x, nf - 1) % NumStates = 0)]

\* soft evidence on factor 0
LLSoft(nf) == [x \in JointStates(nf) |-> IF x[0] = 0 THEN Norm(3, 4, 0) ELSE Norm(1, 4, 0)]

Likelihoods(nf) == {LLUniform(nf), LLParity(nf)}

BaseActions == {0, 1}

OddActions == {-3, -1, 2}

TauSet == {0, 1}

Const(rows, nf, a) == [r \in Range0(rows) |-> [ff \in Range0(nf) |-> a]]

\* one action throughout
PlainTrajectories(rows, nf) == { Const(rows, nf, a) : a \in BaseActions }

\* action 0 throughout but for one row of an odd value
OddTrajectories(rows, nf) ==
    { [Const(rows, nf, 0) EXCEPT ![r0] = [ff \in Range0(nf) |-> v]] :
          r0 \in Range0(rows), v \in OddActions }

PerFactor(nf, x) == [ff \in Range0(nf) |-> x]

\* ------------------------------------------------------------ actions
\* The calls explored: every model, evidence, prior and update rule with a
\* plain trajectory; every odd trajectory with uniform evidence and prior; and
\* soft evidence with a skewed prior on the shortest window.  The rationals
\* must stay within the integers of the model checker: the gradient rule with
\* tau = 1 squares its messages at every visit and is explored from the
\* uniform prior, soft evidence and the skewed prior on one past timestep.
\* An odd trajectory fails, if it does, in the first sweep.
Init ==
    /\ \E nf \in 1 .. MaxFactors, P \in 0 .. MaxPast, Fu \in 1 .. MaxFuture :
          /\ B \in { PerFactor(nf, bt) : bt \in BTensors }
          /\ \/ /\ policy \in PlainTrajectories(P + Fu, nf)
                /\ ll_seq \in { [tt \in Range0(P) |-> l] : l \in Likelihoods(nf) }
                /\ grad_descent \in BOOLEAN
                /\ tau \in (IF grad_descent THEN TauSet ELSE {1})
                /\ prior \in { PerFactor(nf, p) :
                                p \in IF grad_descent /\ tau = 1 THEN {Uniform} ELSE Priors }
                /\ num_iter \in 0 .. MaxIter
             \/ /\ policy \in OddTrajectories(P + Fu, nf)
                /\ ll_seq = [tt \in Range0(P) |-> LLUniform(nf)]
                /\ prior = PerFactor(nf, Uniform)
                /\ grad_descent \in BOOLEAN
                /\ tau = 1
                /\ num_iter \in {0, 1}
             \/ /\ nf = 1 /\ P = 1 /\ Fu = 1
                /\ policy = Const(P + Fu, nf, 0)
                /\ ll_seq \in { [tt \in Range0(P) |-> l] :
                                 l \in {LLSoft(nf), LLParity(nf)} }
                /\ prior = PerFactor(nf, Skewed)
                /\ grad_descent \in BOOLEAN
                /\ tau = 1
                /\ num_iter \in 0 .. MaxIter
    /\ last_timestep \in BOOLEAN
    /\ qs_seq = [tt \in Range0(infer_len) |-> [ff \in Factors |-> InitBelief(ff)]]
    /\ F = <<>>
    /\ itr = Entry.itr /\ t = Entry.t /\ f = Entry.f /\ pc = Entry.pc
    /\ written = [tt \in Range0(infer_len) |-> [ff \in Factors |-> -1]]
    /\ reads = {}
    /\ last = <<-1, -1, -1>>

Goto(p) == itr' = p.itr /\ t' = p.t /\ f' = p.f /\ pc' = p.pc

\* one pass of the loop body, lines 75-109, for (itr, t, f)
UpdateBelief ==
    /\ pc = "update"
    /\ PastIndexOK(t, f) /\ FutureIndexOK(t, f)
    /\ qs_seq' = [qs_seq EXCEPT ![t][f] = NewBelief(qs_seq, t, f)]
    /\ F' = IF grad_descent THEN Accumulate(F, GradTerm(itr, t, f)) ELSE F
    /\ written' = [written EXCEPT ![t][f] = itr]
    /\ reads' = ReadsOf(t, f)
    /\ last' = <<itr, t, f>>
    /\ Goto(AfterUpdate(itr, t, f))
    /\ UNCHANGED inputs

\* the loop body when B[f] or trans_B[f] is indexed out of range
RaiseIndexError ==
    /\ pc = "update"
    /\ ~(PastIndexOK(t, f) /\ FutureIndexOK(t, f))
    /\ reads' = ReadsOf(t, f)
    /\ last' = <<itr, t, f>>
    /\ pc' = "error"
    /\ UNCHANGED <<inputs, qs_seq, F, itr, t, f, written>>

\* lines 111-115, after the factors of timestep t
AccumulateFreeEnergy ==
    /\ pc = "accum"
    /\ F' = Accumulate(F, VfeTerm(itr, t))
    /\ Goto(AfterTimestep(itr, t))
    /\ UNCHANGED <<inputs, qs_seq, written, reads, last>>

\* line 118
Return ==
    /\ pc = "return"
    /\ pc' = "done"
    /\ UNCHANGED <<inputs, qs_seq, F, itr, t, f, written, reads, last>>

Next == UpdateBelief \/ RaiseIndexError \/ AccumulateFreeEnergy \/ Return

Spec == Init /\ [][Next]_vars

\* ============================================================= claims
UniformDist(n) == [s \in Range0(n) |-> Norm(1, n, 0)]

Finished == pc \in {"return", "done"}

Updated == last # <<-1, -1, -1>>

Kinds == {r.kind : r \in reads}

\* a probability vector over n states: no NaN, no negative entry, sum 1
IsDist(v, n) ==
    /\ DOMAIN v = Range0(n)
    /\ \A s \in DOMAIN v : ~IsNaN(v[s]) /\ v[s].n >= 0 /\ v[s].d > 0 /\ v[s].k >= 0
    /\ VSum(v) = One

\* C1: at initialisation and after every update, under both rules, every
\* qs_seq[t][f] is a vector of length num_states[f] whose entries are
\* non-negative and sum to 1.
C1_Validity ==
    /\ DOMAIN qs_seq = Range0(infer_len)
    /\ \A tt \in DOMAIN qs_seq :
          /\ DOMAIN qs_seq[tt] = Factors
          /\ \A ff \in Factors : IsDist(qs_seq[tt][ff], num_states(ff))

\* the gradient rule has run two sweeps on hard evidence and left a belief
\* with an entry at the floor
C1_Witness ==
    /\ pc = "done" /\ grad_descent /\ tau = 1 /\ num_iter >= 2
    /\ \E tt \in DOMAIN qs_seq : \E ff \in Factors : \E s \in DOMAIN qs_seq[tt][ff] :
          qs_seq[tt][ff][s].k >= 1

AltBeliefs(n) == {UniformDist(n)} \cup { [s \in Range0(n) |-> Ind(s = s0)] : s0 \in Range0(n) }

\* C2: at a timestep t >= future_cutoff that has a successor in the window,
\* the update of qs_seq[t][f] does not read qs_seq[t+1], and the value it
\* writes is the same whatever qs_seq[t+1] holds.
C2_TerminalNeutral ==
    ( /\ pc = "update" /\ t >= future_cutoff /\ (t + 1) \in DOMAIN qs_seq
      /\ PastIndexOK(t, f) /\ FutureIndexOK(t, f) )
    => /\ \A r \in ReadsOf(t, f) : r.kind # "qs_next"
       /\ \A v \in AltBeliefs(num_states(f)) :
             NewBelief([qs_seq EXCEPT ![t + 1] = [g \in Factors |-> v]], t, f)
                 = NewBelief(qs_seq, t, f)

\* such an update is about to run in the second sweep, its successor belief
\* no longer the initial one
C2_Witness ==
    /\ pc = "update" /\ t >= future_cutoff /\ (t + 1) \in DOMAIN qs_seq
    /\ PastIndexOK(t, f) /\ itr >= 1
    /\ qs_seq[t + 1][f] # UniformDist(num_states(f))

IsUniformTensor(X) ==
    \E y \in DOMAIN X : \A x \in DOMAIN X : X[x] = X[y]

UniformInputs ==
    /\ \A ff \in Factors : prior[ff] = UniformDist(num_states(ff))
    /\ \A tt \in DOMAIN ll_seq : IsUniformTensor(ll_seq[tt])

ColumnStochastic(M) ==
    \A j \in DOMAIN M : SumOver(DOMAIN M, [i \in DOMAIN M |-> M[i][j]]) = One

RowStochastic(M) ==
    \A i \in DOMAIN M : SumOver(DOMAIN M, [j \in DOMAIN M |-> M[i][j]]) = One

AllUniform ==
    \A tt \in DOMAIN qs_seq : \A ff \in Factors :
        qs_seq[tt][ff] = UniformDist(num_states(ff))

\* C3 as stated: with uniform evidence and prior and column-stochastic
\* transition slices, every belief stays uniform.
C3_Original ==
    ( /\ UniformInputs
      /\ \A ff \in Factors : \A u \in DOMAIN B[ff] : ColumnStochastic(B[ff][u]) )
    => AllUniform

\* C3, amended: with uniform evidence and prior and doubly stochastic
\* transition slices (rows and columns summing to 1), every belief stays
\* uniform, after any number of sweeps and under both rules.
C3_UniformFixedPoint ==
    ( /\ UniformInputs
      /\ \A ff \in Factors : \A u \in DOMAIN B[ff] :
            ColumnStochastic(B[ff][u]) /\ RowStochastic(B[ff][u]) )
    => AllUniform

\* two sweeps of the gradient rule over a window with a middle timestep
C3_Witness ==
    /\ pc = "done" /\ num_iter >= 2 /\ infer_len >= 3 /\ grad_descent /\ tau = 1
    /\ UniformInputs
    /\ \A ff \in Factors : \A u \in DOMAIN B[ff] :
          ColumnStochastic(B[ff][u]) /\ RowStochastic(B[ff][u])
    /\ AllUniform

\* C4 as stated: with future_len = 1 and last_timestep, the cutoff is below 0
\* and no timestep reads a successor belief.
C4_Original ==
    (future_len = 1 /\ last_timestep /\ Updated)
    => (future_cutoff < 0 /\ "qs_next" \notin Kinds)

\* C4, amended: with future_len = 1 and last_timestep, future_cutoff is
\* past_len - 1, the last index of the window; the last timestep uses the
\* terminal message and every earlier timestep reads its successor belief.
C4_CutoffIsLastIndex ==
    (future_len = 1 /\ last_timestep)
    => /\ future_cutoff = past_len - 1
       /\ future_cutoff = infer_len - 1
       /\ (Updated /\ pc # "error") =>
             IF last[2] = infer_len - 1
             THEN "qs_T" \in Kinds /\ "qs_next" \notin Kinds
             ELSE /\ "qs_T" \notin Kinds
                  /\ \E r \in reads : r.kind = "qs_next" /\ r.t = last[2] + 1

C4_Witness ==
    /\ future_len = 1 /\ last_timestep /\ past_len >= 2
    /\ Updated /\ pc # "error" /\ last[2] = 0
    /\ \E r \in reads : r.kind = "qs_next" /\ r.t = 1

\* an action outside [0, n)
OutsideRange(a, n) == a < 0 \/ a >= n

\* an action numpy refuses on an axis of length n
Refused(a, n) == a < -n \/ a >= n

\* C5 as stated, on a window of two timesteps or more: with num_iter >= 1, an
\* entry of the full trajectory outside [0, num_actions[f]) makes the call
\* fail; it never returns normally.
C5_Original ==
    ( /\ num_iter >= 1 /\ infer_len >= 2
      /\ \E r \in DOMAIN policy : \E ff \in Factors :
            OutsideRange(policy[r][ff], num_actions(ff)) )
    => ~Finished

\* C5, amended: with num_iter >= 1, an entry of rows 0 .. infer_len-2 of the
\* full trajectory (the rows the message engine reads) that is
\* >= num_actions[f] or < -num_actions[f] makes the call fail when B[f] or
\* trans_B[f] is indexed with it, and the call fails in no other way; the
\* later rows are never read and an entry in [-num_actions[f], 0) indexes
\* from the end.
C5_ReadRowsRefused ==
    /\ ( /\ num_iter >= 1
         /\ \E r \in DOMAIN policy : \E ff \in Factors :
               r <= infer_len - 2 /\ Refused(policy[r][ff], num_actions(ff)) )
       => ~Finished
    /\ pc = "error"
       => \E r \in reads : /\ r.kind = "policy"
                           /\ r.t <= infer_len - 2
                           /\ Refused(policy[r.t][r.f], num_actions(r.f))

\* the call has failed on an entry below -num_actions[f], after a timestep
\* that went through
C5_Witness ==
    /\ pc = "error" /\ last[2] >= 1
    /\ \E r \in reads : r.kind = "policy" /\ policy[r.t][r.f] < -num_actions(r.f)

SingleUpdate ==
    /\ num_factors = 1 /\ past_len = 1 /\ future_len = 1 /\ last_timestep
    /\ ~grad_descent /\ num_iter = 1 /\ Finished

\* ll_seq[0] elementwise-times prior[0], for a single factor
Joint == [s \in Range0(num_states(0)) |-> VMul(ll_seq[0][[g \in {0} |-> s]], prior[0][s])]

\* normalize(v): v divided by its sum
Normalize(v) == [s \in DOMAIN v |-> VDiv(v[s], VSum(v))]

Negligible(v) == IsZero(v) \/ v.k >= 1

\* equal up to the 1e-16 floor
FloorEq(a, b) ==
    /\ ~IsNaN(a) /\ ~IsNaN(b)
    /\ IF Negligible(a) \/ Negligible(b) THEN Negligible(a) /\ Negligible(b) ELSE a = b

C7_NoSweep ==
    num_iter = 0
    => /\ pc \in {"return", "done"}
       /\ ~Updated
       /\ DOMAIN qs_seq = Range0(infer_len)
       /\ \A tt \in DOMAIN qs_seq : \A ff \in Factors :
             qs_seq[tt][ff] = UniformDist(num_states(ff))
       /\ F = <<>>

C7_Witness ==
    /\ num_iter = 0 /\ pc = "done" /\ infer_len >= 3 /\ num_factors >= 2
    /\ grad_descent /\ last_timestep /\ F = <<>>

LexLess(a, b) ==
    \/ a[1] < b[1]
    \/ a[1] = b[1] /\ a[2] < b[2]
    \/ a[1] = b[1] /\ a[2] = b[2] /\ a[3] < b[3]

\* C8: updates run in strictly ascending (iteration, timestep, factor) order,
\* and the update of qs_seq[t][f] in iteration itr reads qs_seq[t-1][f] as
\* written in itr, qs_seq[t][g] as written in itr for g < f and in itr-1 for
\* g > f, and, when t < future_cutoff, qs_seq[t+1][f] as written in itr-1
\* (-1 standing for the initial value).
C8_GaussSeidel ==
    /\ pc = "update" => LexLess(last, <<itr, t, f>>)
    /\ Updated =>
          /\ \A r \in reads :
                /\ r.kind = "qs_prev" => r.t = last[2] - 1 /\ r.f = last[3] /\ r.ver = last[1]
                /\ r.kind = "qs_same" =>
                      /\ r.t = last[2] /\ r.f # last[3]
                      /\ r.ver = IF r.f < last[3] THEN last[1] ELSE last[1] - 1
                /\ r.kind = "qs_next" =>
                      /\ last[2] < future_cutoff
                      /\ r.t = last[2] + 1 /\ r.f = last[3] /\ r.ver = last[1] - 1
          /\ pc # "error" =>
                /\ last[2] >= 1 => "qs_prev" \in Kinds
                /\ last[2] < past_len =>
                      \A g \in Factors \ {last[3]} :
                          \E r \in reads : r.kind = "qs_same" /\ r.f = g
                /\ last[2] < future_cutoff => "qs_next" \in Kinds

\* a middle timestep of the second sweep, second factor: all three reads
C8_Witness ==
    /\ last = <<1, 1, 1>> /\ pc # "error"
    /\ \E r \in reads : r.kind = "qs_prev" /\ r.ver = 1
    /\ \E r \in reads : r.kind = "qs_same" /\ r.f = 0 /\ r.ver = 1
    /\ \E r \in reads : r.kind = "qs_next" /\ r.ver = 0

IsPrefix(a, b) == Len(a) <= Len(b) /\ \A i \in 1 .. Len(a) : a[i] = b[i]

\* the contributions to F so far, given the position in the loop nest
Contributions ==
    IF grad_descent
    THEN (itr * infer_len + t) * num_factors + f
    ELSE itr * infer_len + t

FreeEnergyLedger ==
    /\ Len(F) = IF Finished /\ num_factors > 0 /\ infer_len > 0
                THEN (IF grad_descent THEN num_iter * infer_len * num_factors
                                      ELSE num_iter * infer_len)
                ELSE IF Finished THEN 0 ELSE Contributions
    /\ Finished => itr = num_iter
    /\ grad_descent => pc # "accum"
    /\ \A i \in 1 .. Len(F) :
          IF grad_descent
          THEN /\ F[i].kind \in {"grad_boundary", "grad_interior"}
               /\ F[i].itr = (i - 1) \div (infer_len * num_factors)
               /\ F[i].t = ((i - 1) \div num_factors) % infer_len
               /\ F[i].f = (i - 1) % num_factors
          ELSE /\ F[i].kind = "vfe"
               /\ F[i].itr = (i - 1) \div infer_len
               /\ F[i].t = (i - 1) % infer_len
               /\ F[i].accuracy = (F[i].t < past_len)
               /\ \A g \in Factors : written[F[i].t][g] >= F[i].itr

\* the steps of a call that runs to its end, and the steps taken so far
TotalSteps == num_iter * infer_len * (num_factors + 1)

Rank ==
    CASE pc = "update" -> (itr * infer_len + t) * (num_factors + 1) + f
      [] pc = "accum" -> (itr * infer_len + t) * (num_factors + 1) + num_factors
      [] pc = "return" -> TotalSteps
      [] OTHER -> TotalSteps + 1

\* a position that is not final is a pass of the loop body within the ranges
\* of the three loops, which the actions take a step from
InLoopNest ==
    /\ pc \in {"update", "accum", "return", "done", "error"}
    /\ pc \in {"update", "accum"} =>
          itr \in Range0(num_iter) /\ t \in Range0(infer_len) /\ f \in Factors

\* C9: F starts at 0 and is never reset; a call that does not fail returns
\* after exactly num_iter sweeps (every position that is not final is a pass
\* of the loop body, and every step moves up a bounded rank); under the
\* direct rule F receives one contribution per (iteration, timestep), after
\* all factors of the timestep
\* were updated in that iteration, with the accuracy term iff t < past_len,
\* num_iter * infer_len in all; under the gradient rule it receives one per
\* (iteration, timestep, factor) and none per timestep.
C9_FreeEnergy ==
    /\ [](FreeEnergyLedger)
    /\ [](InLoopNest)
    /\ [](Rank <= TotalSteps + 1)
    /\ [][IsPrefix(F, F') /\ Rank' > Rank]_vars

C9_Witness ==
    /\ pc = "done" /\ ~grad_descent /\ num_iter = 2 /\ infer_len >= 3
    /\ past_len >= 1 /\ past_len < infer_len
    /\ Len(F) = num_iter * infer_len

\* C10: every successor belief read is at an index <= infer_len-1, every
\* predecessor belief read at an index >= 0, every ll_seq read at an index
\* < past_len, and every row read from the full trajectory is in
\* 0 .. past_len+future_len-2: the final row is never read.
C10_IndexSafety ==
    \A r \in reads :
        /\ r.kind = "qs_next" => r.t <= infer_len - 1
        /\ r.kind = "qs_prev" => r.t >= 0
        /\ r.kind = "ll_seq" => r.t >= 0 /\ r.t < past_len
        /\ r.kind = "policy" => r.t >= 0 /\ r.t < past_len + future_len - 1

\* the successor read at the last index of the window
C10_Witness ==
    /\ pc # "error" /\ last_timestep /\ past_len >= 1
    /\ \E r \in reads : r.kind = "qs_next" /\ r.t = infer_len - 1
    /\ \E r \in reads : r.kind = "policy" /\ r.t = last[2]

====
